---- MODULE Spec2Model ----
(***************************************************************************)
(* Model of js/audio.js: GuitarAudioEngine (voice registries, master gain, *)
(* stopAllNotes) and TabSequencer (transport state machine, trigger list,  *)
(* the 10 ms tick, pause/resume/stop/loop/tempo).                          *)
(*                                                                         *)
(* Units.  Audio-clock times are integers in milliseconds.  Beat positions *)
(* are integers in 1/60000 beat, so that the code's                        *)
(*     currentBeat = elapsed / (60.0 / tempo)                              *)
(* is exactly  elapsed(ms) * tempo(bpm).  Gains are in 1/10000.  Tempos    *)
(* and beat positions are drawn from values for which every division the   *)
(* code makes is exact, so integer arithmetic is the code's arithmetic.    *)
(*                                                                         *)
(* JavaScript scheduling.  A handler (a user command, an interval          *)
(* callback, an event listener) runs to completion; code after an `await`  *)
(* runs later, as a microtask, before the next handler starts.  The        *)
(* continuations of play() and playNote() are therefore actions of their   *)
(* own, and no handler starts while a continuation is runnable.            *)
(***************************************************************************)
EXTENDS Integers, Sequences, FiniteSets, TLC

\* ------------------------------------------------------------ constants
MsPerMinute == 60000        \* "60.0 / this.tempo" seconds per beat, in ms
BeatsPerMeasure == 4        \* "this.tabData.measures.length * 4"
TickPeriod == 10            \* setInterval(..., 10)
Lookahead == 3000           \* "const lookahead = 0.05", in 1/60000 beat
DefaultTempo == 120
MinTempo == 60
MaxTempo == 200
DefaultLoopEnd == 8
MasterVolume == 3000        \* 0.3
Silence == 1                \* 0.0001
RampTime == 10              \* "t + 0.01": the ramp of stopAllNotes
DecayTail == 500            \* "(duration + 0.5) * 1000"
OscPerVoice == 6            \* five harmonics and the vibrato oscillator
FullGain == 10000           \* "stoppableGain.gain.value = 1.0"
Undefined == -1             \* a note without globalBeatPosition

\* ------------------------------------------------------------ bounds
MaxTime == 2100             \* the audio clock is explored up to this time
MaxCmds == 4                \* user commands issued in one run
MaxFret == 12
MaxMeasureInput == 3               \* highest fret given to noteEventToMidiNote

\* Instants at which the user acts, how long the user waits, and when and
\* for how long the host delays the interval callback.
UserTimes == {0, 300, 600, 900, 1200}
WaitSteps == {300}
StallTimes == {300, 1160}
StallSteps == {30}
LoopRanges == {<<1, 1>>}
CycleRanges == {<<1, 1>>, <<2, 2>>}
BpmInputs == {120, 250}

\* ------------------------------------------------------------ tab data
Note(s, f, bp, bd, g) ==
    [string |-> s, fret |-> f, beatPosition |-> bp, beatDuration |-> bd,
     globalBeatPosition |-> g]

\* One measure at tempo 200: a unison on two strings at beat 0, a rest, a
\* note just after beat 1 and a short note just before the end.
TabA ==
    [tempo |-> 200,
     measures |-> <<
       [notes |-> << Note(0, 0, 0, 30000, 0),
                     Note(1, 5, 0, 30000, 0),
                     Note(2, -1, 60000, 60000, 60000),
                     Note(3, 2, 63000, 30000, 63000),
                     Note(0, 3, 237000, 3000, 237000) >>] >>]

\* Two measures with no tempo of their own (the sequencer keeps 120): notes
\* at beat 0, 0.75 and 3.95 of the first measure, and at beat 4 and 5.
TabB ==
    [tempo |-> 0,
     measures |-> <<
       [notes |-> << Note(0, 0, 0, 30000, 0),
                     Note(1, 1, 45000, 15000, 45000),
                     Note(2, 0, 237000, 3000, 237000) >>],
       [notes |-> << Note(5, 0, 0, 60000, 240000),
                     Note(4, 2, 60000, 60000, 300000) >>] >>]

\* One measure of rests only, played at the sequencer's 120.
TabRests ==
    [tempo |-> 0,
     measures |-> <<
       [notes |-> << Note(0, -1, 0, 60000, 0),
                     Note(3, -1, 120000, 60000, 120000) >>] >>]

\* One measure at tempo 250: a note on a seventh string at beat 0, a rest,
\* a note on string -1 and a playable note at beat 0.5.
TabBad ==
    [tempo |-> 250,
     measures |-> <<
       [notes |-> << Note(6, 0, 0, 30000, 0),
                     Note(2, -1, 15000, 15000, 15000),
                     Note(-1, 3, 30000, 30000, 30000),
                     Note(1, 0, 30000, 30000, 30000) >>] >>]

\* No measure at all.
TabNone == [tempo |-> 0, measures |-> <<>>]

\* Two measures at tempo 120: the second measure holds a note whose supplied
\* position ties with a note of the first, and a note at global beat 4 that
\* lasts 2 beats.
TabTwo ==
    [tempo |-> 120,
     measures |-> <<
       [notes |-> << Note(0, 0, 0, 60000, 0),
                     Note(1, 1, 45000, 15000, 45000),
                     Note(2, -1, 60000, 60000, 60000) >>],
       [notes |-> << Note(3, 0, 0, 15000, 45000),
                     Note(5, 0, 0, 120000, 240000) >>] >>]

\* Two measures at tempo 200 whose notes are not in beat order and, but for
\* one, carry no globalBeatPosition.
TabLocal ==
    [tempo |-> 200,
     measures |-> <<
       [notes |-> << Note(3, 2, 120000, 30000, Undefined),
                     Note(0, 0, 0, 30000, Undefined),
                     Note(1, -1, 60000, 30000, Undefined) >>],
       [notes |-> << Note(4, 0, 0, 30000, Undefined),
                     Note(2, 1, 30000, 30000, 270000),
                     Note(5, 3, 60000, 30000, Undefined) >>] >>]

\* One measure at tempo 200 with a note at beat 0 and a note at beat 1.07,
\* whose lookahead window (0.306 s to 0.336 s) a delayed tick can miss.
TabStall ==
    [tempo |-> 200,
     measures |-> <<
       [notes |-> << Note(0, 0, 0, 30000, 0),
                     Note(1, 0, 64200, 30000, 64200) >>] >>]

\* One measure at tempo 200 with notes at beat 0 and, less than the lookahead
\* before the end of the tab, at beat 3.9833.
TabEnds ==
    [tempo |-> 200,
     measures |-> <<
       [notes |-> << Note(0, 0, 0, 30000, 0),
                     Note(2, 2, 120000, 30000, 120000),
                     Note(1, 0, 239000, 600, 239000) >>] >>]

\* Two measures with a tempo of their own of 400 (setTabData takes it as it
\* is): the second measure ends 1.2 s after the start.
TabFast ==
    [tempo |-> 400,
     measures |-> <<
       [notes |-> << Note(0, 0, 0, 30000, 0) >>],
       [notes |-> << Note(1, 0, 0, 30000, 240000),
                     Note(2, 2, 120000, 30000, 360000) >>] >>]

Tabs == {TabA}
SlowBpm == {60}
SteadyBpm == {60, 120, 150, 200}
TimingTabs == {TabTwo, TabLocal}
EdgeTabs == {TabRests, TabBad, TabNone}
VolumeInputs == {-5000, 5000, 15000}
StringInputs == -1..6
\* what parseInt makes of the text of a loop input: NaN or an integer
LoopInputs ==
    {[nan |-> TRUE, value |-> 0]}
        \cup {[nan |-> FALSE, value |-> v] : v \in -1..MaxMeasureInput}
RangeTabs == {TabA, TabTwo}
FretInputs == -1..MaxFret

\* ------------------------------------------------------------ state
VARIABLES
    \* GuitarAudioEngine
    isInitialized, ctxState, contexts, masterGain, masterRamp, activeVoices,
    activeOscillators, voices, cleanups,
    \* TabSequencer
    isPlaying, isPaused, currentBeat, tempo, tabData, allNotes,
    playbackTimer, startTime, pausedTime, totalPausedDuration, isLooping,
    totalDuration, loopStartMeasure, loopEndMeasure,
    \* host: audio clock, interval timers, suspended async calls
    now, activeTimers, pendingPlay, pendingNotes,
    \* observation
    lastOp, observed, pauseBeat, resumeBeat, stoppedVoices, lastVoice,
    passCount, prevPassCount, loopStable, firstList, afterStop, cmds, lastArg,
    missed, completed

engineVars == <<isInitialized, ctxState, contexts, masterGain, masterRamp,
                activeVoices, activeOscillators, voices, cleanups>>
seqVars == <<isPlaying, isPaused, currentBeat, tempo, tabData, allNotes,
             playbackTimer, startTime, pausedTime, totalPausedDuration,
             isLooping, totalDuration, loopStartMeasure, loopEndMeasure>>
hostVars == <<now, activeTimers, pendingPlay, pendingNotes>>
obsVars == <<lastOp, observed, pauseBeat, resumeBeat, stoppedVoices,
             lastVoice, passCount, prevPassCount, loopStable, firstList,
             afterStop, cmds, lastArg, missed, completed>>
vars == <<engineVars, seqVars, hostVars, obsVars>>

\* ------------------------------------------------------------ helpers
Max(a, b) == IF a >= b THEN a ELSE b
Min(a, b) == IF a <= b THEN a ELSE b

EmptyMap == [k \in {} |-> 0]
MapPut(f, k, v) == [x \in DOMAIN f \cup {k} |-> IF x = k THEN v ELSE f[x]]
MapDelete(f, k) == [x \in DOMAIN f \ {k} |-> f[x]]
Range(f) == {f[x] : x \in DOMAIN f}

\* Math.max(60, Math.min(200, bpm))
ClampTempo(bpm) == Max(MinTempo, Min(MaxTempo, bpm))

\* a playhead that does not follow the audio clock
BeatAt_Frozen(elapsed, bpm) == 0

\* elapsed / beatDuration, with beatDuration = 60.0 / tempo
BeatAt(elapsed, bpm) == elapsed * bpm

\* beats * beatDuration, in ms
BeatsToMs(beats, bpm) == beats \div bpm

NoTimer == 0                \* "this.playbackTimer = null"

\* ------------------------------------------------------------ pure functions
\* GuitarAudioEngine.noteEventToMidiNote
standardTuning == <<64, 59, 55, 50, 45, 40>>
noteEventToMidiNote_LowFirst(n) ==
    IF n.fret < 0 \/ n.string < 0 \/ n.string >= 6
    THEN -1
    ELSE standardTuning[6 - n.string] + n.fret
noteEventToMidiNote_AnyString(n) ==
    IF n.fret < 0
    THEN -1
    ELSE IF n.string \in 0..5 THEN standardTuning[n.string + 1] + n.fret
         ELSE n.fret
noteEventToMidiNote(n) ==
    IF n.fret < 0 \/ n.string < 0 \/ n.string >= 6
    THEN -1
    ELSE standardTuning[n.string + 1] + n.fret

\* TabSequencer.prepareNotes: the trigger of one note
Trigger(n) ==
    [note |-> n,
     beatPosition |-> IF n.globalBeatPosition # Undefined
                      THEN n.globalBeatPosition ELSE n.beatPosition,
     beatDuration |-> n.beatDuration,
     triggered |-> FALSE]

\* the notes of all measures with fret >= 0, in measure-then-note order
RECURSIVE CollectNotes(_)
CollectNotes(measures) ==
    IF measures = <<>> THEN <<>>
    ELSE LET sounding == SelectSeq(Head(measures).notes, LAMBDA n : n.fret >= 0)
         IN  [i \in 1..Len(sounding) |-> Trigger(sounding[i])]
             \o CollectNotes(Tail(measures))

\* a sort that puts a trigger before the triggers of equal beatPosition
InsertByBeat_Unstable(sorted, x) ==
    LET after == {i \in 1..Len(sorted) : sorted[i].beatPosition < x.beatPosition}
        k == IF after = {} THEN 0 ELSE CHOOSE i \in after : \A j \in after : j <= i
    IN  SubSeq(sorted, 1, k) \o <<x>> \o SubSeq(sorted, k + 1, Len(sorted))

\* Array.prototype.sort((a, b) => a.beatPosition - b.beatPosition): stable
InsertByBeat(sorted, x) ==
    LET after == {i \in 1..Len(sorted) : sorted[i].beatPosition <= x.beatPosition}
        k == IF after = {} THEN 0 ELSE CHOOSE i \in after : \A j \in after : j <= i
    IN  SubSeq(sorted, 1, k) \o <<x>> \o SubSeq(sorted, k + 1, Len(sorted))

RECURSIVE SortByBeat(_, _)
SortByBeat(sorted, rest) ==
    IF rest = <<>> THEN sorted
    ELSE SortByBeat(InsertByBeat(sorted, Head(rest)), Tail(rest))

\* prepareNotes without `this.allNotes = []` and without the rebuild when a
\* list is already there
prepareNotes_KeepsList(tab) ==
    IF allNotes # <<>> THEN allNotes
    ELSE SortByBeat(<<>>, CollectNotes(tab.measures))

prepareNotes(tab) == SortByBeat(<<>>, CollectNotes(tab.measures))

\* totalBeats * beatDuration, in ms
TotalDuration(tab, bpm) ==
    (Len(tab.measures) * BeatsPerMeasure * MsPerMinute) \div bpm

\* the progress fraction without the clamp of Math.min at 1.0
ProgressOf_Unclamped(cb, total, bpm) == [num |-> cb, den |-> total * bpm]

\* Math.min(currentBeat / (totalDuration / beatDuration), 1.0) as a fraction
\* num/den; 1/1 is "1.0", 0/0 is NaN and -1/0 is -Infinity.
One == [num |-> 1, den |-> 1]
Zero == [num |-> 0, den |-> 1]
ProgressOf(cb, total, bpm) ==
    LET den == total * bpm
    IN  IF den > 0
        THEN IF cb >= den THEN One ELSE [num |-> cb, den |-> den]
        ELSE IF cb > 0 THEN One
             ELSE IF cb = 0 THEN [num |-> 0, den |-> 0]
             ELSE [num |-> -1, den |-> 0]

\* The observer calls of one handler are listed in call order: a progress
\* value for onProgressCallback, OnComplete for onCompleteCallback (no
\* progress value is 1/0).
OnComplete == [num |-> 1, den |-> 0]

\* stop() that reports nothing
stopCallbacks_Silent == <<>>

\* stop() that also calls the completion observer
stopCallbacks_Completes == <<Zero, OnComplete>>

\* the observer calls of stop(): onProgressCallback(0)
stopCallbacks == <<Zero>>

\* a test that fires only the triggers exactly at the playhead
Due_Exact(nd, cb) == ~nd.triggered /\ cb = nd.beatPosition

\* the tick's test for one trigger
Due(nd, cb) ==
    /\ ~nd.triggered
    /\ cb >= nd.beatPosition - Lookahead
    /\ cb <= nd.beatPosition + Lookahead

\* the tick's loop without `noteData.triggered = true`
FireDue_NoFlag(notes, cb) == notes

\* the trigger list after the tick's loop over allNotes
FireDue(notes, cb) ==
    [i \in 1..Len(notes) |->
        IF Due(notes[i], cb) THEN [notes[i] EXCEPT !.triggered = TRUE]
        ELSE notes[i]]

\* the playNote calls the tick's loop makes, in list order
NoteCalls(notes, cb, bpm) ==
    LET idx == [i \in 1..Len(notes) |-> i]
        due == SelectSeq(idx, LAMBDA i : Due(notes[i], cb))
    IN  [k \in 1..Len(due) |->
            [note |-> notes[due[k]].note,
             startTime |-> Max(0, BeatsToMs(notes[due[k]].beatPosition - cb, bpm)),
             duration |-> BeatsToMs(notes[due[k]].beatDuration, bpm),
             stale |-> FALSE]]

\* TabSequencer.loop: the trigger list with the loop range un-fired
LoopStartBeat == (loopStartMeasure - 1) * BeatsPerMeasure * MsPerMinute
LoopEndBeat == loopEndMeasure * BeatsPerMeasure * MsPerMinute
Unfire_All(notes) ==
    [i \in 1..Len(notes) |-> [notes[i] EXCEPT !.triggered = FALSE]]
Unfire(notes) ==
    [i \in 1..Len(notes) |->
        IF notes[i].beatPosition >= LoopStartBeat /\ notes[i].beatPosition < LoopEndBeat
        THEN [notes[i] EXCEPT !.triggered = FALSE]
        ELSE notes[i]]

\* ------------------------------------------------------------ audio graph
\* A voice is the node chain of one playSimpleGuitarNote call: oscillators
\* scheduled for [start, stop) behind the stoppable gain.
OscOf(vid) == {<<vid, k>> : k \in 1..OscPerVoice}
NewVid == CHOOSE n \in 1..(Cardinality(voices) + 1) : \A v \in voices : v.vid # n
NewTimer == CHOOSE n \in 1..(Cardinality(activeTimers) + 1) : n \notin activeTimers

\* nodes still referenced by a registry or still scheduled to sound
Retained(t) ==
    {v \in voices : \/ v.stop > t
                    \/ v.vid \in Range(activeVoices)
                    \/ OscOf(v.vid) \cap activeOscillators # {}}

\* stopAllNotes that empties the registries but reaches only the voices that
\* have started to sound
stopAllNotes_StartedOnly(vs, t) ==
    IF ctxState = "none"
    THEN /\ UNCHANGED <<masterGain, masterRamp, activeOscillators, activeVoices>>
         /\ voices' = vs
         /\ stoppedVoices' = {}
    ELSE /\ masterGain' = masterGain
         /\ masterRamp' = <<Silence, t + RampTime>>
         /\ voices' =
              {IF v.start <= t
               THEN [v EXCEPT
                       !.stop = IF OscOf(v.vid) \cap activeOscillators # {}
                                THEN Min(@, t) ELSE @,
                       !.gain = IF v.vid \in Range(activeVoices) THEN 0 ELSE @]
               ELSE v
               : v \in vs}
         /\ activeOscillators' = {}
         /\ activeVoices' = EmptyMap
         /\ stoppedVoices' = Range(activeVoices)

\* GuitarAudioEngine.stopAllNotes at audio time t, on the node set vs
stopAllNotes(vs, t) ==
    IF ctxState = "none"
    THEN /\ UNCHANGED <<masterGain, masterRamp, activeOscillators, activeVoices>>
         /\ voices' = vs
         /\ stoppedVoices' = {}
    ELSE /\ masterGain' = masterGain
         /\ masterRamp' = <<Silence, t + RampTime>>
         /\ voices' =
              {[v EXCEPT
                  !.stop = IF OscOf(v.vid) \cap activeOscillators # {}
                           THEN Min(@, t) ELSE @,
                  !.gain = IF v.vid \in Range(activeVoices) THEN 0 ELSE @]
               : v \in vs}
         /\ activeOscillators' = {}
         /\ activeVoices' = EmptyMap
         /\ stoppedVoices' = Range(activeVoices)

\* setMasterVolume that leaves the gain where the last ramp put it
setMasterVolume_Ignored(v) == UNCHANGED <<masterGain, masterRamp>>

\* GuitarAudioEngine.setMasterVolume
setMasterVolume_KeepsRamp(v) ==
    IF ctxState # "none"
    THEN /\ masterGain' = Max(0, Min(FullGain, v))
         /\ masterRamp' = masterRamp
    ELSE UNCHANGED <<masterGain, masterRamp>>
setMasterVolume(v) ==
    IF ctxState # "none"
    THEN /\ masterGain' = Max(0, Min(FullGain, v))
         /\ masterRamp' = <<>>
    ELSE UNCHANGED <<masterGain, masterRamp>>

\* the master gain once the audio clock has reached t: a ramp that has ended
\* leaves its target value
masterSettled(t) ==
    IF masterRamp # <<>> /\ masterRamp[2] <= t
    THEN /\ masterGain' = masterRamp[1]
         /\ masterRamp' = <<>>
    ELSE UNCHANGED <<masterGain, masterRamp>>

\* GuitarAudioEngine.initialize: the platform starts the new context running
\* or suspended
initialize_Again ==
    /\ isInitialized' = TRUE
    /\ ctxState' \in {"running", "suspended"}
    /\ contexts' = contexts + 1
    /\ masterGain' = MasterVolume
    /\ masterRamp' = <<>>
initialize ==
    IF isInitialized
    THEN UNCHANGED <<isInitialized, ctxState, contexts, masterGain, masterRamp>>
    ELSE /\ isInitialized' = TRUE
         /\ ctxState' \in {"running", "suspended"}
         /\ contexts' = contexts + 1
         /\ masterGain' = MasterVolume
         /\ masterRamp' = <<>>

MarkStale(calls) == [i \in 1..Len(calls) |-> [calls[i] EXCEPT !.stale = TRUE]]

\* GuitarAudioEngine.playSimpleGuitarNote, called at audio time t
playSimpleGuitarNote(midiNote, start, duration, stringIndex, t) ==
    LET vid == NewVid
        noteId == <<midiNote, start>>
    IN  /\ voices' = voices \cup
              {[vid |-> vid, midi |-> midiNote, string |-> stringIndex,
                start |-> start, stop |-> start + duration, gain |-> FullGain]}
        /\ activeOscillators' = activeOscillators \cup OscOf(vid)
        /\ activeVoices' = MapPut(activeVoices, noteId, vid)
        /\ cleanups' = cleanups \cup
              {[noteId |-> noteId, vid |-> vid,
                at |-> t + duration + DecayTail]}
        /\ lastVoice' = [vid |-> vid, stale |-> Head(pendingNotes).stale]

\* ------------------------------------------------------------ scheduling
NoVoice == [vid |-> 0, stale |-> FALSE]
Runnable ==
    \/ pendingNotes # <<>>
    \/ pendingPlay # <<>> /\ ctxState = "running"
EndedDue(v) == OscOf(v.vid) \cap activeOscillators # {} /\ v.stop <= now
EventDue ==
    \/ \E v \in voices : EndedDue(v)
    \/ \E c \in cleanups : c.at <= now
Quiescent == ~Runnable /\ ~EventDue
UserReady == Quiescent /\ now \in UserTimes /\ cmds < MaxCmds

\* the triggers that the playhead cb has left behind unfired
LeftBehind(notes, cb) ==
    {i \in DOMAIN notes :
        ~notes[i].triggered /\ cb > notes[i].beatPosition + Lookahead}
ZeroCounts(notes) == [i \in 1..Len(notes) |-> 0]
CountDue(notes, cb) ==
    [i \in 1..Len(notes) |->
        IF Due(notes[i], cb) THEN Min(passCount[i] + 1, 2) ELSE passCount[i]]

\* what a handler that reports nothing leaves in the observation variables
Quiet(op) ==
    /\ lastOp' = op
    /\ lastArg' = <<>>
    /\ observed' = <<>>
    /\ resumeBeat' = <<>>
    /\ lastVoice' = NoVoice

\* ------------------------------------------------------------ TabSequencer
\* setTabData(tabData)
SetTabData(tab) ==
    /\ Quiescent /\ now \in UserTimes
    /\ tabData = <<>>
    /\ tabData' = <<tab>>
    /\ tempo' = IF tab.tempo # 0 THEN tab.tempo ELSE tempo
    /\ Quiet("setTabData")
    /\ stoppedVoices' = {}
    /\ UNCHANGED <<engineVars, hostVars, isPlaying, isPaused, currentBeat,
                   allNotes, playbackTimer, startTime, pausedTime,
                   totalPausedDuration, isLooping, totalDuration,
                   loopStartMeasure, loopEndMeasure, pauseBeat, completed, missed, passCount,
                   prevPassCount, loopStable, firstList, afterStop, cmds>>

\* setTempo that moves the start time to keep the playhead where it is
SetTempo_Rebases(bpm) ==
    /\ UserReady
    /\ tempo' = ClampTempo(bpm)
    /\ startTime' = now - totalPausedDuration
                      - BeatsToMs(BeatAt(now - startTime - totalPausedDuration,
                                         tempo), ClampTempo(bpm))
    /\ Quiet("setTempo")
    /\ stoppedVoices' = {}
    /\ afterStop' = FALSE
    /\ cmds' = cmds + 1
    /\ UNCHANGED <<engineVars, hostVars, isPlaying, isPaused, currentBeat,
                   tabData, allNotes, playbackTimer, pausedTime,
                   totalPausedDuration, isLooping, totalDuration,
                   loopStartMeasure, loopEndMeasure, pauseBeat, completed, missed, passCount,
                   prevPassCount, loopStable, firstList>>

\* setTempo(bpm)
SetTempo(bpm) ==
    /\ UserReady
    /\ tempo' = ClampTempo(bpm)
    /\ Quiet("setTempo")
    /\ stoppedVoices' = {}
    /\ afterStop' = FALSE
    /\ cmds' = cmds + 1
    /\ UNCHANGED <<engineVars, hostVars, isPlaying, isPaused, currentBeat,
                   tabData, allNotes, playbackTimer, startTime, pausedTime,
                   totalPausedDuration, isLooping, totalDuration,
                   loopStartMeasure, loopEndMeasure, pauseBeat, completed, missed, passCount,
                   prevPassCount, loopStable, firstList>>

\* setLooping(enabled)
SetLooping(enabled) ==
    /\ UserReady
    /\ isLooping' = enabled
    /\ loopStable' = (loopStable /\ enabled = isLooping)
    /\ Quiet("setLooping")
    /\ stoppedVoices' = {}
    /\ afterStop' = FALSE
    /\ cmds' = cmds + 1
    /\ UNCHANGED <<engineVars, hostVars, isPlaying, isPaused, currentBeat,
                   tempo, tabData, allNotes, playbackTimer, startTime,
                   pausedTime, totalPausedDuration, totalDuration,
                   loopStartMeasure, loopEndMeasure, pauseBeat, completed, missed, passCount,
                   prevPassCount, firstList>>

\* setLoopRange(startMeasure, endMeasure)
SetLoopRange(startMeasure, endMeasure) ==
    /\ UserReady
    /\ loopStartMeasure' = startMeasure
    /\ loopEndMeasure' = endMeasure
    /\ loopStable' = (loopStable /\ startMeasure = loopStartMeasure
                                 /\ endMeasure = loopEndMeasure)
    /\ Quiet("setLoopRange")
    /\ stoppedVoices' = {}
    /\ afterStop' = FALSE
    /\ cmds' = cmds + 1
    /\ UNCHANGED <<engineVars, hostVars, isPlaying, isPaused, currentBeat,
                   tempo, tabData, allNotes, playbackTimer, startTime,
                   pausedTime, totalPausedDuration, isLooping, totalDuration,
                   pauseBeat, completed, missed, passCount, prevPassCount, firstList>>

\* ------------------------------------------------------------ GuitarTabPlayer
\* `x || d`: d when x is NaN or 0
OrDefault(p, d) == IF p.nan \/ p.value = 0 THEN d ELSE p.value

\* `this.tabData?.measures.length || 8`
MeasureCount ==
    IF tabData = <<>> \/ Len(tabData[1].measures) = 0 THEN DefaultLoopEnd
    ELSE Len(tabData[1].measures)

\* updateLoopRange: the range computed from the two parsed inputs
updateLoopRange(startInput, endInput) ==
    LET start == Max(1, OrDefault(startInput, 1))
        end == Min(MeasureCount, OrDefault(endInput, DefaultLoopEnd))
    IN  <<start, IF start > end THEN start ELSE end>>

\* GuitarTabPlayer.updateLoopRange, up to its call of setLoopRange
UpdateLoopRange(startInput, endInput) ==
    SetLoopRange(updateLoopRange(startInput, endInput)[1],
                 updateLoopRange(startInput, endInput)[2])

\* ------------------------------------------------------------ TabSequencer
\* startRealtimePlayback: setInterval(callback, 10)
startRealtimePlayback ==
    /\ playbackTimer' = NewTimer
    /\ activeTimers' = activeTimers \cup {NewTimer}

\* startFreshPlayback
startFreshPlayback ==
    /\ isPlaying' = TRUE
    /\ isPaused' = FALSE
    /\ currentBeat' = 0
    /\ startTime' = now
    /\ totalPausedDuration' = 0
    /\ allNotes' = prepareNotes(tabData[1])
    /\ totalDuration' = TotalDuration(tabData[1], tempo)
    /\ startRealtimePlayback
    /\ lastOp' = IF Head(pendingPlay).restart THEN "restart" ELSE "startFresh"
    /\ resumeBeat' = <<>>
    /\ pauseBeat' = <<>>
    /\ passCount' = ZeroCounts(prepareNotes(tabData[1]))
    /\ missed' = {}
    /\ prevPassCount' = ZeroCounts(prepareNotes(tabData[1]))
    /\ loopStable' = isLooping
    /\ firstList' = IF firstList = <<>> THEN <<prepareNotes(tabData[1])>>
                    ELSE firstList
    /\ UNCHANGED <<pausedTime, completed>>

\* resume that flattens the tab again
resume_Reflattens ==
    /\ isPlaying' = TRUE
    /\ isPaused' = FALSE
    /\ totalPausedDuration' = totalPausedDuration + (now - pausedTime)
    /\ startRealtimePlayback
    /\ lastOp' = IF Head(pendingPlay).restart THEN "resumeAfterStop" ELSE "resume"
    /\ resumeBeat' =
         IF pauseBeat = <<>> THEN <<>>
         ELSE <<pauseBeat[1],
                BeatAt(now - startTime - (totalPausedDuration + (now - pausedTime)),
                       tempo)>>
    /\ pauseBeat' = <<>>
    /\ allNotes' = prepareNotes(tabData[1])
    /\ UNCHANGED <<currentBeat, startTime, totalDuration, pausedTime,
                   completed, missed, passCount, prevPassCount, loopStable, firstList>>

\* resume
resume ==
    /\ isPlaying' = TRUE
    /\ isPaused' = FALSE
    /\ totalPausedDuration' = totalPausedDuration + (now - pausedTime)
    /\ startRealtimePlayback
    /\ lastOp' = IF Head(pendingPlay).restart THEN "resumeAfterStop" ELSE "resume"
    /\ resumeBeat' =
         IF pauseBeat = <<>> THEN <<>>
         ELSE <<pauseBeat[1],
                BeatAt(now - startTime - (totalPausedDuration + (now - pausedTime)),
                       tempo)>>
    /\ pauseBeat' = <<>>
    /\ UNCHANGED <<currentBeat, startTime, allNotes, totalDuration, pausedTime,
                   completed, missed, passCount, prevPassCount, loopStable, firstList>>

\* play(), up to its await: ensureAudioContext creates the context on first
\* use (the platform starts it running or suspended) and asks a suspended
\* context to resume.
Play ==
    /\ UserReady
    /\ cmds' = cmds + 1
    /\ afterStop' = FALSE
    /\ completed' = FALSE
    /\ Quiet("play")
    /\ stoppedVoices' = {}
    /\ IF tabData = <<>>
       THEN UNCHANGED <<isInitialized, ctxState, contexts, masterGain,
                        masterRamp, pendingPlay>>
       ELSE /\ pendingPlay' = Append(pendingPlay,
                                   [restart |-> afterStop, overtaken |-> FALSE])
            /\ initialize
    /\ UNCHANGED <<activeVoices, activeOscillators, voices, cleanups, seqVars,
                   now, activeTimers, pendingNotes, pauseBeat, missed, passCount,
                   prevPassCount, loopStable, firstList>>

\* the promise of audioContext.resume() resolves
ContextResumed ==
    /\ ctxState = "suspended"
    /\ pendingPlay # <<>>
    /\ ctxState' = "running"
    /\ Quiet("contextResumed")
    /\ stoppedVoices' = {}
    /\ UNCHANGED <<isInitialized, contexts, masterGain, masterRamp,
                   activeVoices, activeOscillators,
                   voices, cleanups, seqVars, hostVars, pauseBeat, completed, missed, passCount,
                   prevPassCount, loopStable, firstList, afterStop, cmds>>

\* play(), after its await
PlayContinue ==
    /\ pendingPlay # <<>>
    /\ ctxState = "running"
    /\ pendingPlay' = Tail(pendingPlay)
    /\ setMasterVolume(MasterVolume)
    /\ IF isPaused THEN resume ELSE startFreshPlayback
    /\ lastArg' = <<>>
    /\ observed' = <<>>
    /\ lastVoice' = NoVoice
    /\ stoppedVoices' = {}
    /\ UNCHANGED <<isInitialized, ctxState, contexts, activeVoices,
                   activeOscillators, voices, cleanups, tempo, tabData, isLooping,
                   loopStartMeasure, loopEndMeasure, now, pendingNotes,
                   afterStop, cmds>>

\* stop(), at audio time t, on the node set vs
stop(vs, t) ==
    /\ isPlaying' = FALSE
    /\ isPaused' = FALSE
    /\ currentBeat' = 0
    /\ totalPausedDuration' = 0
    /\ activeTimers' = activeTimers \ {playbackTimer}
    /\ playbackTimer' = NoTimer
    /\ stopAllNotes(vs, t)

Stop ==
    /\ UserReady
    /\ stop(voices, now)
    /\ lastOp' = "stop"
    /\ lastArg' = <<>>
    /\ observed' = stopCallbacks
    /\ resumeBeat' = <<>>
    /\ lastVoice' = NoVoice
    /\ pauseBeat' = <<>>
    /\ afterStop' = TRUE
    /\ cmds' = cmds + 1
    /\ pendingNotes' = MarkStale(pendingNotes)
    /\ pendingPlay' = [i \in 1..Len(pendingPlay) |->
                          [pendingPlay[i] EXCEPT !.overtaken = TRUE]]
    /\ UNCHANGED <<isInitialized, ctxState, contexts, cleanups, tempo, tabData, allNotes,
                   startTime, pausedTime, isLooping, totalDuration,
                   loopStartMeasure, loopEndMeasure, now,
                   completed, missed, passCount, prevPassCount, loopStable, firstList>>

\* pause(): with no audio context yet, reading audioContext.currentTime
\* throws after the two flags are set
Pause ==
    /\ UserReady
    /\ isPlaying' = FALSE
    /\ isPaused' = TRUE
    /\ IF ctxState = "none"
       THEN /\ UNCHANGED <<pausedTime, activeTimers, playbackTimer, masterGain,
                           masterRamp, voices, activeOscillators, activeVoices>>
            /\ stoppedVoices' = {}
       ELSE /\ pausedTime' = now
            /\ activeTimers' = activeTimers \ {playbackTimer}
            /\ playbackTimer' = NoTimer
            /\ stopAllNotes(voices, now)
    /\ Quiet("pause")
    /\ pauseBeat' = IF isPlaying
                    THEN <<BeatAt(now - startTime - totalPausedDuration, tempo)>>
                    ELSE pauseBeat
    /\ afterStop' = FALSE
    /\ cmds' = cmds + 1
    /\ pendingNotes' = MarkStale(pendingNotes)
    /\ pendingPlay' = [i \in 1..Len(pendingPlay) |->
                          [restart |-> FALSE, overtaken |-> TRUE]]
    /\ UNCHANGED <<isInitialized, ctxState, contexts, cleanups, currentBeat, tempo,
                   tabData, allNotes, startTime, totalPausedDuration, isLooping,
                   totalDuration, loopStartMeasure, loopEndMeasure, now,
                   completed, missed, passCount, prevPassCount, loopStable, firstList>>

\* loop(), at audio time t, on the trigger list notes
loop(notes, t) ==
    /\ currentBeat' = LoopStartBeat
    /\ startTime' = t - BeatsToMs(LoopStartBeat, tempo)
    /\ totalPausedDuration' = 0
    /\ allNotes' = Unfire(notes)

\* the interval callback of startRealtimePlayback, run TickPeriod after the
\* previous callback
Tick ==
    /\ Quiescent
    /\ activeTimers # {}
    /\ now + TickPeriod <= MaxTime
    /\ now' = now + TickPeriod
    /\ lastArg' = <<>>
    /\ resumeBeat' = <<>>
    /\ lastVoice' = NoVoice
    /\ IF ~isPlaying
       THEN /\ lastOp' = "tickIdle"
            /\ observed' = <<>>
            /\ voices' = Retained(now)
            /\ stoppedVoices' = {}
            /\ masterSettled(now + TickPeriod)
            /\ UNCHANGED <<activeVoices, activeOscillators,
                           isPlaying, isPaused, currentBeat, allNotes,
                           playbackTimer, startTime, totalPausedDuration,
                           activeTimers, pendingNotes, completed, missed, passCount,
                           prevPassCount, pauseBeat>>
       ELSE LET currentTime == now + TickPeriod
                elapsed == currentTime - startTime - totalPausedDuration
                cb == BeatAt(elapsed, tempo)
                progress == ProgressOf(cb, totalDuration, tempo)
                fired == FireDue(allNotes, cb)
                calls == NoteCalls(allNotes, cb, tempo)
                counted == CountDue(allNotes, cb)
            IN  IF isLooping /\ cb >= LoopEndBeat
                THEN /\ loop(fired, currentTime)
                     /\ pendingNotes' = pendingNotes \o calls
                     /\ lastOp' = "tickLoop"
                     /\ observed' = <<progress>>
                     /\ prevPassCount' = counted
                     /\ passCount' = ZeroCounts(allNotes)
                     /\ missed' = {}
                     /\ UNCHANGED completed
                     /\ voices' = Retained(now)
                     /\ stoppedVoices' = {}
                     /\ masterSettled(currentTime)
                     /\ UNCHANGED <<activeVoices, activeOscillators,
                                    isPlaying, isPaused, playbackTimer,
                                    activeTimers, pauseBeat>>
                ELSE IF ~isLooping /\ progress = One
                THEN /\ stop(Retained(now), currentTime)
                     /\ allNotes' = fired
                     /\ pendingNotes' = MarkStale(pendingNotes \o calls)
                     /\ lastOp' = "tickComplete"
                     /\ observed' = <<progress>> \o stopCallbacks \o <<OnComplete>>
                     /\ passCount' = counted
                     /\ missed' = missed \cup LeftBehind(fired, cb)
                     /\ completed' = TRUE
                     /\ pauseBeat' = <<>>
                     /\ UNCHANGED <<startTime, prevPassCount>>
                ELSE /\ currentBeat' = cb
                     /\ allNotes' = fired
                     /\ pendingNotes' = pendingNotes \o calls
                     /\ lastOp' = "tick"
                     /\ observed' = <<progress>>
                     /\ passCount' = counted
                     /\ missed' = missed \cup LeftBehind(fired, cb)
                     /\ UNCHANGED completed
                     /\ voices' = Retained(now)
                     /\ stoppedVoices' = {}
                     /\ masterSettled(currentTime)
                     /\ UNCHANGED <<activeVoices, activeOscillators,
                                    isPlaying, isPaused, playbackTimer,
                                    startTime, totalPausedDuration,
                                    activeTimers, prevPassCount, pauseBeat>>
    /\ UNCHANGED <<isInitialized, ctxState, contexts, cleanups, tempo, tabData,
                   pausedTime, isLooping, totalDuration, loopStartMeasure,
                   loopEndMeasure, pendingPlay, loopStable, firstList,
                   afterStop, cmds>>

\* playNote(), after its await
PlayNoteContinue ==
    /\ pendingNotes # <<>>
    /\ pendingNotes' = Tail(pendingNotes)
    /\ lastArg' = <<>>
    /\ LET call == Head(pendingNotes)
           midiNote == noteEventToMidiNote(call.note)
       IN  IF midiNote < 0
           THEN /\ lastOp' = "playNoteSkip"
                /\ lastVoice' = NoVoice
                /\ UNCHANGED <<voices, activeOscillators, activeVoices, cleanups>>
           ELSE /\ lastOp' = "voiceStart"
                /\ playSimpleGuitarNote(midiNote, now + call.startTime,
                                        call.duration, call.note.string, now)
    /\ observed' = <<>>
    /\ resumeBeat' = <<>>
    /\ stoppedVoices' = {}
    /\ UNCHANGED <<isInitialized, ctxState, contexts, masterGain, masterRamp,
                   seqVars, now,
                   activeTimers, pendingPlay, pauseBeat, completed, missed, passCount,
                   prevPassCount, loopStable, firstList, afterStop, cmds>>

\* the 'ended' listeners of the oscillators of one voice
OscEnded(v) ==
    /\ ~Runnable
    /\ EndedDue(v)
    /\ activeOscillators' = activeOscillators \ OscOf(v.vid)
    /\ Quiet("ended")
    /\ stoppedVoices' = {}
    /\ UNCHANGED <<isInitialized, ctxState, contexts, masterGain, masterRamp,
                   activeVoices, voices,
                   cleanups, seqVars, hostVars, pauseBeat, completed, missed, passCount,
                   prevPassCount, loopStable, firstList, afterStop, cmds>>

\* the setTimeout of playSimpleGuitarNote: activeVoices.delete(noteId).
\* (playNote's own setTimeout deletes the key midiNote, which is never a key
\* of the registry, and changes nothing.)
CleanupTimeout(c) ==
    /\ ~Runnable
    /\ c.at <= now
    /\ activeVoices' = MapDelete(activeVoices, c.noteId)
    /\ cleanups' = cleanups \ {c}
    /\ Quiet("cleanup")
    /\ stoppedVoices' = {}
    /\ UNCHANGED <<isInitialized, ctxState, contexts, masterGain, masterRamp,
                   activeOscillators,
                   voices, seqVars, hostVars, pauseBeat, completed, missed, passCount,
                   prevPassCount, loopStable, firstList, afterStop, cmds>>

\* time passes while no interval timer is set
Wait(d) ==
    /\ Quiescent
    /\ ctxState = "running"
    /\ activeTimers = {}
    /\ now + d <= MaxTime
    /\ now' = now + d
    /\ voices' = Retained(now)
    /\ Quiet("wait")
    /\ stoppedVoices' = {}
    /\ masterSettled(now + d)
    /\ UNCHANGED <<isInitialized, ctxState, contexts, activeVoices,
                   activeOscillators, cleanups, seqVars, activeTimers,
                   pendingPlay, pendingNotes, pauseBeat, completed, missed, passCount,
                   prevPassCount, loopStable, firstList, afterStop, cmds>>

\* the host delays the interval callback
Stall(d) ==
    /\ Quiescent
    /\ activeTimers # {}
    /\ isPlaying
    /\ now \in StallTimes
    /\ now + d + TickPeriod <= MaxTime
    /\ now' = now + d
    /\ voices' = Retained(now)
    /\ Quiet("stall")
    /\ stoppedVoices' = {}
    /\ masterSettled(now + d)
    /\ UNCHANGED <<isInitialized, ctxState, contexts, activeVoices,
                   activeOscillators, cleanups, seqVars, activeTimers,
                   pendingPlay, pendingNotes, pauseBeat, completed, missed, passCount,
                   prevPassCount, loopStable, firstList, afterStop, cmds>>

\* new AudioContext() throws: initialize() assigns nothing and rethrows
initializeFails_MarksReady ==
    /\ isInitialized' = TRUE
    /\ UNCHANGED <<ctxState, contexts, masterGain, masterRamp>>
initializeFails ==
    UNCHANGED <<isInitialized, ctxState, contexts, masterGain, masterRamp>>

\* play() on an engine whose initialize() rejects: the await in
\* ensureAudioContext rethrows and the rest of play() never runs
PlayFails ==
    /\ UserReady
    /\ tabData # <<>>
    /\ ~isInitialized
    /\ initializeFails
    /\ Quiet("playRejected")
    /\ stoppedVoices' = {}
    /\ afterStop' = FALSE
    /\ cmds' = cmds + 1
    /\ UNCHANGED <<activeVoices, activeOscillators, voices, cleanups, seqVars,
                   hostVars, pauseBeat, completed, missed, passCount, prevPassCount, loopStable,
                   firstList>>

\* setMasterVolume(v), called on the engine between handlers
SetMasterVolume(v) ==
    /\ UserReady
    /\ setMasterVolume(v)
    /\ lastOp' = "setMasterVolume"
    /\ lastArg' = <<[volume |-> v, ramp |-> masterRamp]>>
    /\ observed' = <<>>
    /\ resumeBeat' = <<>>
    /\ lastVoice' = NoVoice
    /\ stoppedVoices' = {}
    /\ cmds' = cmds + 1
    /\ UNCHANGED <<isInitialized, ctxState, contexts, activeVoices,
                   activeOscillators, voices, cleanups, seqVars, hostVars,
                   pauseBeat, completed, missed, passCount, prevPassCount, loopStable, firstList,
                   afterStop>>

\* noteEventToMidiNote(noteEvent), called on the engine on its own
NoteEventToMidiNote(n) ==
    /\ lastOp' = "noteEventToMidiNote"
    /\ lastArg' = <<[note |-> n, midi |-> noteEventToMidiNote(n)]>>
    /\ observed' = <<>>
    /\ resumeBeat' = <<>>
    /\ lastVoice' = NoVoice
    /\ stoppedVoices' = {}
    /\ UNCHANGED <<engineVars, seqVars, hostVars, pauseBeat, completed, missed, passCount,
                   prevPassCount, loopStable, firstList, afterStop, cmds>>

\* ------------------------------------------------------------ specification
Init ==
    /\ isInitialized = FALSE
    /\ ctxState = "none"
    /\ contexts = 0
    /\ masterGain = 0
    /\ masterRamp = <<>>
    /\ activeVoices = EmptyMap
    /\ activeOscillators = {}
    /\ voices = {}
    /\ cleanups = {}
    /\ isPlaying = FALSE
    /\ isPaused = FALSE
    /\ currentBeat = 0
    /\ tempo = DefaultTempo
    /\ tabData = <<>>
    /\ allNotes = <<>>
    /\ playbackTimer = NoTimer
    /\ startTime = 0
    /\ pausedTime = 0
    /\ totalPausedDuration = 0
    /\ isLooping = FALSE
    /\ totalDuration = 0
    /\ loopStartMeasure = 1
    /\ loopEndMeasure = DefaultLoopEnd
    /\ now = 0
    /\ activeTimers = {}
    /\ pendingPlay = <<>>
    /\ pendingNotes = <<>>
    /\ lastOp = "init"
    /\ observed = <<>>
    /\ pauseBeat = <<>>
    /\ resumeBeat = <<>>
    /\ stoppedVoices = {}
    /\ lastVoice = NoVoice
    /\ passCount = <<>>
    /\ prevPassCount = <<>>
    /\ loopStable = FALSE
    /\ firstList = <<>>
    /\ afterStop = FALSE
    /\ cmds = 0
    /\ lastArg = <<>>
    /\ missed = {}
    /\ completed = FALSE

Next ==
    \/ \E tab \in Tabs : SetTabData(tab)
    \/ \E bpm \in BpmInputs : SetTempo(bpm)
    \/ \E b \in BOOLEAN : SetLooping(b)
    \/ \E r \in LoopRanges : SetLoopRange(r[1], r[2])
    \/ Play
    \/ ContextResumed
    \/ PlayContinue
    \/ Stop
    \/ Pause
    \/ Tick
    \/ PlayNoteContinue
    \/ \E v \in voices : OscEnded(v)
    \/ \E c \in cleanups : CleanupTimeout(c)
    \/ \E d \in WaitSteps : Wait(d)
    \/ \E d \in StallSteps : Stall(d)

Spec == Init /\ [][Next]_vars

\* Looped playback with on-time ticks: the loop is set up before play() and
\* stays enabled, the interval callback is never delayed, nothing pauses or
\* stops the transport.
NextLoop ==
    \/ SetTabData(TabB)
    \/ SetLooping(TRUE)
    \/ \E r \in LoopRanges : SetLoopRange(r[1], r[2])
    \/ \E bpm \in BpmInputs : SetTempo(bpm)
    \/ Play
    \/ ContextResumed
    \/ PlayContinue
    \/ Tick
    \/ PlayNoteContinue
    \/ \E v \in voices : OscEnded(v)
    \/ \E c \in cleanups : CleanupTimeout(c)

SpecLoop == Init /\ [][NextLoop]_vars

\* Sessions on the tabs of EdgeTabs, on a platform that may refuse to create
\* the audio context, with direct calls of setMasterVolume.
NextEdge ==
    \/ \E tab \in EdgeTabs : SetTabData(tab)
    \/ \E bpm \in BpmInputs : SetTempo(bpm)
    \/ \E v \in VolumeInputs : SetMasterVolume(v)
    \/ Play
    \/ PlayFails
    \/ ContextResumed
    \/ PlayContinue
    \/ Stop
    \/ Tick
    \/ PlayNoteContinue
    \/ \E v \in voices : OscEnded(v)
    \/ \E c \in cleanups : CleanupTimeout(c)
    \/ \E d \in WaitSteps : Wait(d)

SpecEdge == Init /\ [][NextEdge]_vars

\* The pitch function on its own, over every string index of StringInputs
\* and every fret of FretInputs.
NextPitch ==
    \E s \in StringInputs, f \in FretInputs :
        NoteEventToMidiNote(Note(s, f, 0, MsPerMinute, 0))

SpecPitch == Init /\ [][NextPitch]_vars

\* Sessions on the tabs of TimingTabs that nothing but stop() and a new
\* play() interrupts: the tempo is the tab's, the interval callback is on
\* time.
NextTabs ==
    \/ \E tab \in TimingTabs : SetTabData(tab)
    \/ Play
    \/ ContextResumed
    \/ PlayContinue
    \/ Stop
    \/ Tick
    \/ PlayNoteContinue
    \/ \E v \in voices : OscEnded(v)
    \/ \E c \in cleanups : CleanupTimeout(c)
    \/ \E d \in WaitSteps : Wait(d)

SpecTabs == Init /\ [][NextTabs]_vars

\* A session whose interval callback the host may delay and whose tempo the
\* user may lower; nothing pauses or stops the transport.
NextStall ==
    \/ SetTabData(TabStall)
    \/ \E bpm \in SlowBpm : SetTempo(bpm)
    \/ Play
    \/ ContextResumed
    \/ PlayContinue
    \/ Tick
    \/ PlayNoteContinue
    \/ \E v \in voices : OscEnded(v)
    \/ \E c \in cleanups : CleanupTimeout(c)
    \/ \E d \in StallSteps : Stall(d)

SpecStall == Init /\ [][NextStall]_vars

\* Sessions at a constant tempo that nothing interrupts: the tempo is set
\* while the transport is not Playing, the interval callback is on time,
\* nothing pauses or stops the transport.
NextSteady ==
    \/ SetTabData(TabEnds)
    \/ ~isPlaying /\ \E bpm \in SteadyBpm : SetTempo(bpm)
    \/ Play
    \/ ContextResumed
    \/ PlayContinue
    \/ Tick
    \/ PlayNoteContinue
    \/ \E v \in voices : OscEnded(v)
    \/ \E c \in cleanups : CleanupTimeout(c)
    \/ \E d \in WaitSteps : Wait(d)

SpecSteady == Init /\ [][NextSteady]_vars

\* The loop inputs of the player: the range reaches the sequencer through
\* updateLoopRange only, before or after a tab is loaded.
NextRange ==
    \/ \E tab \in RangeTabs : SetTabData(tab)
    \/ \E s \in LoopInputs, e \in LoopInputs : UpdateLoopRange(s, e)
    \/ \E b \in BOOLEAN : SetLooping(b)

SpecRange == Init /\ [][NextRange]_vars

\* Looped playback of the fast tab over its first or its second measure,
\* with tempo changes; nothing pauses or stops the transport.
NextCycle ==
    \/ SetTabData(TabFast)
    \/ SetLooping(TRUE)
    \/ \E r \in CycleRanges : SetLoopRange(r[1], r[2])
    \/ \E bpm \in SlowBpm : SetTempo(bpm)
    \/ Play
    \/ ContextResumed
    \/ PlayContinue
    \/ Tick
    \/ PlayNoteContinue
    \/ \E v \in voices : OscEnded(v)
    \/ \E c \in cleanups : CleanupTimeout(c)

SpecCycle == Init /\ [][NextCycle]_vars

\* Sessions without looping that nothing pauses or stops: the user may call
\* play() again and change the tempo. The host runs the interval callback
\* every TickPeriod as long as a timer is set, and every pending playNote
\* call, "ended" event and timeout gets its turn.
NextRun ==
    \/ \E tab \in Tabs : SetTabData(tab)
    \/ \E bpm \in BpmInputs : SetTempo(bpm)
    \/ Play
    \/ ContextResumed
    \/ PlayContinue
    \/ Tick
    \/ PlayNoteContinue
    \/ \E v \in voices : OscEnded(v)
    \/ \E c \in cleanups : CleanupTimeout(c)
    \/ \E d \in WaitSteps : Wait(d)

SpecRun ==
    /\ Init /\ [][NextRun]_vars
    /\ WF_vars(Tick)
    /\ WF_vars(PlayNoteContinue)
    /\ WF_vars(\E v \in voices : OscEnded(v))
    /\ WF_vars(\E c \in cleanups : CleanupTimeout(c))

\* ------------------------------------------------------------ claims
TransportState ==
    IF isPlaying THEN "Playing" ELSE IF isPaused THEN "Paused" ELSE "Stopped"
Registered(vid) == \E k \in DOMAIN activeVoices : activeVoices[k] = vid
StoppedAll == lastOp \in {"stop", "pause", "tickComplete"} /\ ctxState # "none"

\* C1: when the transport was paused while Playing at elapsed beat B and is
\* resumed by play(), the beat computed at the instant of the resume is B.
C1_ResumeAtPausedBeat ==
    lastOp = "resume" /\ resumeBeat # <<>> => resumeBeat[2] = resumeBeat[1]

\* C2: after stopAllNotes both registries are empty, and every voice that was
\* registered has its oscillators stopped by the current time and its gain
\* at zero.
C2_StopAllSilencesRegistered ==
    StoppedAll =>
        /\ activeVoices = EmptyMap
        /\ activeOscillators = {}
        /\ \A v \in voices :
               /\ v.stop <= now
               /\ v.vid \in stoppedVoices => v.gain = 0

\* C2 witness: a stop-all that cancelled a voice scheduled to start later
C2_Witness ==
    /\ StoppedAll
    /\ \E v \in voices : v.vid \in stoppedVoices /\ v.start > now

\* C3: no voice is created while the transport is not Playing, and none for
\* a playNote call that was dispatched before a stop() or pause() that has
\* run since.
C3_NoVoiceAfterStop ==
    lastOp = "voiceStart" => isPlaying /\ ~lastVoice.stale

\* C4: the voice of a playNote call issued after the last stopAllNotes is
\* registered, has full per-voice gain, and plays through a master gain
\* that is back at the playback volume.
C4_LaterNoteNotSilenced ==
    lastOp = "voiceStart" /\ ~lastVoice.stale =>
        /\ Registered(lastVoice.vid)
        /\ \A v \in voices : v.vid = lastVoice.vid => v.gain = FullGain
        /\ masterGain = MasterVolume
        /\ masterRamp = <<>>

\* C4 witness: a voice started after a pause (and its stop-all) and a resume
C4_Witness ==
    /\ lastOp = "voiceStart"
    /\ ~lastVoice.stale
    /\ totalPausedDuration > 0

\* C5: Paused is entered only from Playing by pause(); Playing is entered
\* only from Stopped by a fresh start at beat 0 with a new trigger list or
\* from Paused by a resume; Stopped is entered by stop() or completion.
C5_StateMachine ==
    [][TransportState' # TransportState =>
         \/ /\ TransportState' = "Paused"
            /\ TransportState = "Playing"
            /\ lastOp' = "pause"
         \/ /\ TransportState' = "Playing"
            /\ TransportState = "Stopped"
            /\ lastOp' \in {"startFresh", "restart"}
            /\ currentBeat' = 0
            /\ allNotes' = prepareNotes(tabData[1])
         \/ /\ TransportState' = "Playing"
            /\ TransportState = "Paused"
            /\ lastOp' \in {"resume", "resumeAfterStop"}
         \/ /\ TransportState' = "Stopped"
            /\ lastOp' \in {"stop", "tickComplete"}]_vars

\* C6: within one pass of the playhead every trigger is dispatched at most
\* once; a fired flag is set only by a tick that dispatches the trigger and
\* cleared only by a loop reset or by a fresh flatten.
C6_AtMostOncePerPass ==
    [][/\ \A i \in DOMAIN passCount' :
              passCount'[i] <= 1 /\ prevPassCount'[i] <= 1
       /\ \A i \in DOMAIN allNotes' :
              /\ (i \in DOMAIN allNotes /\ ~allNotes[i].triggered
                      /\ allNotes'[i].triggered)
                 => /\ lastOp' \in {"tick", "tickLoop", "tickComplete"}
                    /\ \E k \in DOMAIN pendingNotes' :
                           pendingNotes'[k].note = allNotes[i].note
              /\ (i \in DOMAIN allNotes /\ allNotes[i].triggered
                      /\ ~allNotes'[i].triggered)
                 => lastOp' \in {"tickLoop", "startFresh", "restart"}]_vars

\* C6 witness: a trigger dispatched once in the pass before a loop reset and
\* once again in the pass after it
C6_Witness ==
    \E i \in DOMAIN passCount : passCount[i] = 1 /\ prevPassCount[i] = 1

\* C7: while looping stays enabled with a fixed window [S,E), a trigger with
\* absoluteBeat >= E is never dispatched (stated for the sessions that keep
\* the tempo they started with).
C7_PastWindowNeverDispatched ==
    loopStable /\ tempo = DefaultTempo =>
        \A i \in DOMAIN allNotes :
            allNotes[i].beatPosition >= LoopEndBeat =>
                ~allNotes[i].triggered /\ passCount[i] = 0
                    /\ prevPassCount[i] = 0

\* C8: while looping stays enabled with a fixed window [S,E), each loop
\* iteration that a reset has closed dispatched every trigger of the window
\* exactly once.
C8_OncePerIteration ==
    loopStable /\ lastOp = "tickLoop" =>
        \A i \in DOMAIN allNotes :
            (allNotes[i].beatPosition >= LoopStartBeat
                 /\ allNotes[i].beatPosition < LoopEndBeat)
            => prevPassCount[i] = 1

\* C9: after stop() the transport is Stopped, no tick timer is active, the
\* playhead and the paused-duration accumulator are 0, both registries are
\* empty and progress 0 has been reported.
C9_AfterStop ==
    lastOp \in {"stop", "tickComplete"} =>
        /\ TransportState = "Stopped"
        /\ activeTimers = {}
        /\ playbackTimer = NoTimer
        /\ currentBeat = 0
        /\ totalPausedDuration = 0
        /\ activeVoices = EmptyMap
        /\ activeOscillators = {}
        /\ Zero \in Range(observed)

\* C10: the play() that follows a stop() starts fresh, never resumes: it
\* builds the trigger list the first play() of the tab built, with every
\* flag false, and puts the playhead at beat 0.
C10_RestartFromScratch ==
    /\ lastOp # "resumeAfterStop"
    /\ lastOp = "restart" =>
           /\ firstList # <<>>
           /\ allNotes = firstList[1]
           /\ \A i \in DOMAIN allNotes : ~allNotes[i].triggered
           /\ currentBeat = 0
           /\ startTime = now
           /\ totalPausedDuration = 0
           /\ isPlaying /\ ~isPaused

\* C10 witness: a restart after a session that paused and fired triggers
C10_Witness ==
    /\ lastOp = "restart"
    /\ pausedTime > 0
    /\ cleanups # {}

TickOps == {"tick", "tickLoop", "tickComplete"}
Completions(calls) == Cardinality({i \in DOMAIN calls : calls[i] = OnComplete})
TotalBeats == Len(tabData[1].measures) * BeatsPerMeasure * MsPerMinute
\* the beat the tick formula gives at audio time t with tempo bpm
PlayheadAt(t, bpm) == BeatAt(t - startTime - totalPausedDuration, bpm)

\* C11: the completion observer is called once by the tick that runs while
\* Playing without looping and reports progress 1, which leaves the
\* transport Stopped, and by nothing else: not by stop(), not by pause(), not
\* by a later tick of the same session.
C11_CompleteOnce ==
    [][LET done == Completions(observed')
           finalTick == /\ isPlaying /\ ~isLooping
                        /\ lastOp' \in TickOps
                        /\ observed'[1] = One
       IN  /\ done = IF finalTick THEN 1 ELSE 0
           /\ done = 1 => lastOp' = "tickComplete" /\ TransportState' = "Stopped"]_vars

\* C11 witness: natural completion of a session that was paused and resumed
C11_Witness ==
    /\ lastOp = "tickComplete"
    /\ Completions(observed) = 1
    /\ pausedTime > 0

\* C12: the progress a tick reports while Playing is min(currentBeat /
\* totalBeats, 1) with totalBeats = 4 * measures, and without looping the
\* tick completes the session exactly when currentBeat >= totalBeats.
C12_ProgressIsBeatFraction ==
    [][isPlaying /\ lastOp' \in TickOps =>
         LET cb == PlayheadAt(now', tempo)
             p == observed'[1]
         IN  /\ IF cb >= TotalBeats THEN p = One
                ELSE p.den > 0 /\ p.num * TotalBeats = cb * p.den
             /\ ~isLooping => (lastOp' = "tickComplete" <=> cb >= TotalBeats)]_vars

\* C14: setTempo() while Playing leaves the playhead where it is: the beat
\* position at the instant of the call is the same at the old and at the new
\* tempo.
C14_TempoKeepsPlayhead ==
    [][isPlaying /\ lastOp' = "setTempo" =>
         PlayheadAt(now, tempo') = PlayheadAt(now, tempo)]_vars

\* C16: every playNote call for a valid note adds exactly one entry to the
\* active-voice registry, for a voice that starts at now + startOffset, and
\* displaces no entry.
C16_OneVoicePerCall ==
    [][pendingNotes # <<>> /\ pendingNotes' = Tail(pendingNotes)
           /\ noteEventToMidiNote(Head(pendingNotes).note) >= 0 =>
         /\ Cardinality(DOMAIN activeVoices') = Cardinality(DOMAIN activeVoices) + 1
         /\ Range(activeVoices) \subseteq Range(activeVoices')
         /\ \E v \in voices' \ voices :
                /\ v.vid \in Range(activeVoices')
                /\ v.start = now + Head(pendingNotes).startTime]_vars

\* C13: in every reachable state the sequencer's tempo lies between 60 and
\* 200 BPM, whatever tempo the loaded tab carries and whatever bpm setTempo
\* is given.
C13_TempoInRange == tempo >= MinTempo /\ tempo <= MaxTempo

\* C15: on a tab in which no note has a fret >= 0, the first tick after a
\* fresh play() is the completing one: it reports progress 1, the stop
\* report and the completion, and leaves the transport Stopped.
C15_RestsCompleteAtOnce ==
    [][/\ tabData # <<>>
       /\ prepareNotes(tabData[1]) = <<>>
       /\ lastOp \in {"startFresh", "restart"}
       /\ ~isLooping
       /\ lastOp' \in TickOps
       => /\ lastOp' = "tickComplete"
          /\ observed' = <<One, Zero, OnComplete>>
          /\ TransportState' = "Stopped"]_vars

\* C17: a playNote call for a note with fret < 0 or a string outside 0..5
\* creates no oscillator and no voice, leaves both registries, the cleanup
\* timers and the transport as they were and raises nothing; the tick that
\* made the call has flagged its trigger; no voice ever sounds such a note
\* and no trigger is ever built for a note with fret < 0.
Playable(n) == n.fret >= 0 /\ n.string >= 0 /\ n.string <= 5
C17_InvalidNoteIsNoOp ==
    [][/\ \A i \in DOMAIN allNotes' : allNotes'[i].note.fret >= 0
       /\ \A v \in voices' : v.string \in 0..5 /\ v.midi >= standardTuning[6]
       /\ (lastOp' \in {"tick", "tickComplete"} /\ isPlaying' =>
             \A k \in DOMAIN pendingNotes' :
                \E i \in DOMAIN allNotes' :
                   /\ allNotes'[i].note = pendingNotes'[k].note
                   /\ allNotes'[i].triggered)
       /\ (/\ pendingNotes # <<>>
           /\ pendingNotes' = Tail(pendingNotes)
           /\ ~Playable(Head(pendingNotes).note)
           => /\ lastOp' = "playNoteSkip"
              /\ UNCHANGED <<voices, activeOscillators, activeVoices,
                             cleanups, seqVars, activeTimers>>)]_vars
C17_Witness ==
    /\ lastOp = "voiceStart"
    /\ isPlaying
    /\ \E i \in DOMAIN allNotes :
          ~Playable(allNotes[i].note) /\ allNotes[i].triggered

\* C18: when the audio context cannot be created, the rejected play() leaves
\* isInitialized false and changes nothing of the engine, the transport, the
\* timers or the trigger list; a play() that follows initializes the engine.
C18_FailedInitLeavesAllAsItWas ==
    [][/\ (lastOp' = "playRejected" =>
             /\ ~isInitialized'
             /\ UNCHANGED <<engineVars, seqVars, hostVars>>)
       /\ (lastOp = "playRejected" /\ lastOp' = "play" =>
             /\ isInitialized'
             /\ contexts' = contexts + 1
             /\ Len(pendingPlay') = Len(pendingPlay) + 1)]_vars
C18_Witness ==
    /\ lastOp = "playRejected"
    /\ ~isInitialized
    /\ contexts = 0
    /\ TransportState = "Stopped"
    /\ allNotes = <<>>
    /\ activeTimers = {}

\* C19: at most one audio context (with its master gain) is ever created;
\* once isInitialized is true it stays true and no later call creates
\* another; isInitialized is true exactly when the context exists.
C19_InitializeOnce ==
    [][/\ contexts' <= 1
       /\ (isInitialized' <=> contexts' = 1)
       /\ (isInitialized => isInitialized' /\ contexts' = contexts)
       /\ (isInitialized /\ lastOp' = "play" =>
             UNCHANGED <<masterGain, masterRamp>>)]_vars
C19_Witness == lastOp = "play" /\ isPlaying /\ contexts = 1

\* C20: setMasterVolume(v) on an engine whose context exists sets the master
\* gain at once to v clamped to [0,1] and leaves no scheduled change of it,
\* the ramp of stopAllNotes included; before initialization it changes
\* nothing.
C20_VolumeSetAtOnce ==
    [][lastOp' = "setMasterVolume" =>
         LET v == lastArg'[1].volume
         IN  IF isInitialized
             THEN /\ masterGain' = IF v < 0 THEN 0
                                   ELSE IF v > FullGain THEN FullGain ELSE v
                  /\ masterRamp' = <<>>
             ELSE UNCHANGED engineVars]_vars
C20_Witness ==
    /\ lastOp = "setMasterVolume"
    /\ lastArg[1].ramp # <<>>
    /\ masterGain = FullGain
    /\ masterRamp = <<>>

\* C21: a registered voice leaves the active-voice registry only when
\* stopAllNotes empties the registry or when its own cleanup runs, and its
\* own cleanup runs no earlier than its scheduled stop time plus the 0.5 s
\* decay tail; a cleanup never removes the entry of another voice.
C21_RegisteredUntilDecayed ==
    [][\A v \in voices :
          v.vid \in Range(activeVoices) /\ v.vid \notin Range(activeVoices')
          => \/ /\ lastOp' \in {"stop", "pause", "tickComplete"}
                /\ activeVoices' = EmptyMap
             \/ /\ lastOp' = "cleanup"
                /\ \E c \in cleanups \ cleanups' : c.vid = v.vid
                /\ now >= v.stop + DecayTail]_vars

\* C22: for a string index 0..5 and a fret >= 0 the MIDI number is the open
\* pitch of the string (64, 59, 55, 50, 45, 40 from index 0 to 5) plus the
\* fret; the result is -1 exactly when the fret is negative or the string
\* index is outside 0..5.
OpenStringPitch(s) ==
    CASE s = 0 -> 64 [] s = 1 -> 59 [] s = 2 -> 55
      [] s = 3 -> 50 [] s = 4 -> 45 [] s = 5 -> 40
C22_PitchOfStringAndFret ==
    lastOp = "noteEventToMidiNote" =>
        LET n == lastArg[1].note
            m == lastArg[1].midi
        IN  IF n.fret >= 0 /\ n.string >= 0 /\ n.string <= 5
            THEN m = OpenStringPitch(n.string) + n.fret /\ m # -1
            ELSE m = -1
C22_Witness ==
    /\ lastOp = "noteEventToMidiNote"
    /\ lastArg[1].note.string = 5
    /\ lastArg[1].note.fret = 12
    /\ lastArg[1].midi = 52

\* The places <<measure, note>> of the loaded tab, in 1-based indices, and the
\* place of a note (the notes of a tab are pairwise different records).
TabPlaces ==
    UNION {{<<m, k>> : k \in 1..Len(tabData[1].measures[m].notes)} :
              m \in 1..Len(tabData[1].measures)}
NoteAt(p) == tabData[1].measures[p[1]].notes[p[2]]
PlaceOf(n) == CHOOSE p \in TabPlaces : NoteAt(p) = n
PlaceBefore(p, q) == p[1] < q[1] \/ (p[1] = q[1] /\ p[2] < q[2])

\* C23: the trigger list built by a fresh play() holds exactly one trigger
\* for each note with fret >= 0 and none for the others, every trigger is
\* unfired, the list is in nondecreasing beat order and triggers of equal
\* beat are in measure-then-note order.
C23_TriggerList ==
    lastOp \in {"startFresh", "restart"} =>
        /\ \A p \in TabPlaces :
              Cardinality({i \in DOMAIN allNotes : allNotes[i].note = NoteAt(p)})
                  = IF NoteAt(p).fret >= 0 THEN 1 ELSE 0
        /\ \A i \in DOMAIN allNotes :
              /\ \E p \in TabPlaces : allNotes[i].note = NoteAt(p)
              /\ ~allNotes[i].triggered
        /\ \A i, j \in DOMAIN allNotes :
              i < j =>
                /\ allNotes[i].beatPosition <= allNotes[j].beatPosition
                /\ allNotes[i].beatPosition = allNotes[j].beatPosition
                     => PlaceBefore(PlaceOf(allNotes[i].note),
                                    PlaceOf(allNotes[j].note))
C23_Witness ==
    /\ lastOp \in {"startFresh", "restart"}
    /\ tabData = <<TabLocal>>
    /\ Len(allNotes) = 5
    /\ allNotes[1].beatPosition = allNotes[2].beatPosition
    /\ allNotes[1].note.string = 0
    /\ allNotes[4].note.string = 3

\* C24: the beat of every trigger is the note's globalBeatPosition when the
\* note has one, and otherwise 4 times the index of its measure plus its
\* beatPosition.
C24_AbsoluteBeat ==
    \A i \in DOMAIN allNotes :
        LET n == allNotes[i].note
        IN  allNotes[i].beatPosition =
              IF n.globalBeatPosition # Undefined
              THEN n.globalBeatPosition
              ELSE (PlaceOf(n)[1] - 1) * BeatsPerMeasure * MsPerMinute
                      + n.beatPosition

\* C26: in a session that nothing interrupts, the voice of a trigger starts
\* at the playback start time plus the trigger's beat times the beat length
\* and lasts the trigger's beatDuration times the beat length; the start
\* offset given to playNote is not negative.
C26_StartOnTheBeat ==
    [][lastOp' = "voiceStart" /\ ~lastVoice'.stale =>
         LET call == Head(pendingNotes)
             i == CHOOSE k \in DOMAIN allNotes : allNotes[k].note = call.note
         IN  /\ call.startTime >= 0
             /\ \E v \in voices' :
                   /\ v.vid = lastVoice'.vid
                   /\ v.start = startTime + BeatsToMs(allNotes[i].beatPosition, tempo)
                   /\ v.stop - v.start =
                        BeatsToMs(allNotes[i].beatDuration, tempo)]_vars

\* C25: on a tick an unfired trigger is dispatched exactly when its beat is
\* within 50 ms of the playhead, that is within 0.050 s / secondsPerBeat
\* beats, at every tempo.
WindowMs == 50
C25_WindowIs50ms ==
    [][isPlaying /\ lastOp' \in TickOps =>
         LET cb == PlayheadAt(now', tempo)
         IN  \A i \in DOMAIN allNotes :
                ~allNotes[i].triggered =>
                  ((\E k \in DOMAIN pendingNotes' :
                        pendingNotes'[k].note = allNotes[i].note)
                   <=> /\ allNotes[i].beatPosition - cb <= WindowMs * tempo
                       /\ cb - allNotes[i].beatPosition <= WindowMs * tempo)]_vars

C28_ResumeKeepsTriggers ==
    [][/\ (lastOp' \in {"pause", "resume", "resumeAfterStop"} \/ isPaused
             => allNotes' = allNotes)
       /\ (lastOp' \in {"resume", "resumeAfterStop"}
             => pendingNotes' = pendingNotes)
       /\ \A k \in DOMAIN pendingNotes' :
             k > Len(pendingNotes) =>
               \E i \in DOMAIN allNotes :
                  /\ allNotes[i].note = pendingNotes'[k].note
                  /\ ~allNotes[i].triggered]_vars
C28_Witness ==
    /\ lastOp = "resume"
    /\ resumeBeat # <<>>
    /\ \E i \in DOMAIN allNotes : allNotes[i].triggered
    /\ \E i \in DOMAIN allNotes : ~allNotes[i].triggered

\* C29: in every transport state setTempo changes only the tempo,
\* setLooping only isLooping and setLoopRange only the two range fields:
\* transport state, timer, currentBeat, start time, paused-duration
\* accumulator, trigger list, every other sequencer field, the engine and
\* the pending calls are left as they were.
C29_PureBookkeeping ==
    [][/\ (lastOp' = "setTempo" =>
             UNCHANGED <<engineVars, hostVars, isPlaying, isPaused,
                         currentBeat, tabData, allNotes, playbackTimer,
                         startTime, pausedTime, totalPausedDuration,
                         isLooping, totalDuration, loopStartMeasure,
                         loopEndMeasure>>)
       /\ (lastOp' = "setLooping" =>
             UNCHANGED <<engineVars, hostVars, isPlaying, isPaused,
                         currentBeat, tempo, tabData, allNotes, playbackTimer,
                         startTime, pausedTime, totalPausedDuration,
                         totalDuration, loopStartMeasure, loopEndMeasure>>)
       /\ (lastOp' = "setLoopRange" =>
             UNCHANGED <<engineVars, hostVars, isPlaying, isPaused,
                         currentBeat, tempo, tabData, allNotes, playbackTimer,
                         startTime, pausedTime, totalPausedDuration,
                         isLooping, totalDuration>>)]_vars
C29_Witness ==
    /\ lastOp = "setTempo"
    /\ TransportState = "Playing"
    /\ currentBeat > 0
    /\ tempo # tabData[1].tempo
    /\ \E i \in DOMAIN allNotes : allNotes[i].triggered

\* C30: a tick dispatches a trigger only when the playhead is within the
\* lookahead of the trigger's beat, and never a trigger that an earlier tick
\* of the same pass of the playhead had left behind unfired.
C30_NoCatchUp ==
    [][isPlaying /\ lastOp' \in TickOps =>
         LET cb == PlayheadAt(now', tempo)
         IN  \A k \in DOMAIN pendingNotes' :
                k > Len(pendingNotes) =>
                  \E i \in DOMAIN allNotes :
                     /\ allNotes[i].note = pendingNotes'[k].note
                     /\ cb >= allNotes[i].beatPosition - Lookahead
                     /\ cb <= allNotes[i].beatPosition + Lookahead
                     /\ i \notin missed]_vars

\* ------------------------------------------------------------ C31..C40
\* a progress value that lies in [0,1]
InUnit(p) == p.den > 0 /\ 0 <= p.num /\ p.num <= p.den

\* C31: an interval callback that runs while the transport is Paused or
\* Stopped dispatches no trigger, changes no fired flag, does not recompute
\* currentBeat and reports nothing; one that runs while Playing calls the
\* progress observer, and every progress value it reports lies in [0,1].
C31_TickOnlyWhilePlaying ==
    [][lastOp' \in TickOps \cup {"tickIdle"} =>
         IF ~isPlaying
         THEN /\ pendingNotes' = pendingNotes
              /\ allNotes' = allNotes
              /\ currentBeat' = currentBeat
              /\ observed' = <<>>
         ELSE /\ observed' # <<>>
              /\ \A i \in DOMAIN observed' :
                    observed'[i] # OnComplete => InUnit(observed'[i])]_vars

\* C31 witness: an interval callback has run while Paused with a trigger
\* that the frozen playhead has not fired yet
C31_Witness ==
    /\ lastOp = "tickIdle"
    /\ isPaused
    /\ \E i \in DOMAIN allNotes : ~allNotes[i].triggered

\* the session that play() started at audio time s is Playing, and its
\* last tick falls within the time explored
Running(s) ==
    /\ isPlaying /\ ~isLooping
    /\ tabData # <<>>
    /\ startTime = s
    /\ s + totalPausedDuration + totalDuration <= MaxTime

\* the transport is Stopped by a tick that called the completion observer
CompletedNaturally ==
    /\ lastOp = "tickComplete"
    /\ Completions(observed) = 1
    /\ TransportState = "Stopped"

\* C32: without looping, with a loaded tab, and with nothing that pauses or
\* stops the transport, every session that play() starts reaches Stopped by
\* natural completion with onComplete called, whatever tempo changes are
\* made while it plays, unless play() is called again before that (and
\* then the session that this play() starts is the one that completes).
C32_EventuallyCompletes ==
    \A s \in UserTimes :
        Running(s) ~> \/ CompletedNaturally
                      \/ pendingPlay # <<>>
                      \/ isPlaying /\ startTime # s

\* C32 witness: natural completion of a session whose tempo was changed
\* while it played
C32_Witness ==
    /\ CompletedNaturally
    /\ totalDuration # TotalDuration(tabData[1], tempo)

\* C33: at most one interval timer is set, and one is set exactly when the
\* transport is Playing.
C33_OneTimerWhilePlaying ==
    /\ Cardinality(activeTimers) <= 1
    /\ activeTimers # {} <=> isPlaying

\* C34: when play() finishes its await after a stop() or a pause() that
\* was called while it was waiting for the audio context, with no play()
\* called after that, the transport is not Playing and no interval timer is
\* set (so no tick can dispatch a trigger).
C34_LaterCommandWins ==
    [][/\ pendingPlay # <<>>
       /\ pendingPlay' = Tail(pendingPlay)
       /\ \A i \in DOMAIN pendingPlay : pendingPlay[i].overtaken
       => /\ ~isPlaying'
          /\ activeTimers' = {}
          /\ pendingNotes' = pendingNotes]_vars

\* C35: a pause() called while the transport is already Paused keeps the
\* pause time that the first pause() recorded (and with it the beat from
\* which the next resume continues).
C35_PauseIdempotent ==
    [][lastOp' = "pause" /\ TransportState = "Paused" /\ ctxState # "none" =>
         /\ pausedTime' = pausedTime
         /\ TransportState' = "Paused"
         /\ pauseBeat' = pauseBeat]_vars

\* the trigger nd has, at audio time t, a voice still to sound from t on or
\* a playNote call still to run
VoiceToCome(nd, t) ==
    \/ \E v \in voices :
          /\ v.midi = noteEventToMidiNote(nd.note)
          /\ v.string = nd.note.string
          /\ v.start >= t /\ v.stop > v.start /\ v.gain > 0
    \/ \E k \in DOMAIN pendingNotes :
          pendingNotes[k].note = nd.note /\ ~pendingNotes[k].stale

\* C36: when play() resumes a session that pause() interrupted at beat B,
\* every trigger with absoluteBeat >= B is either unfired, so that a tick
\* after the resume dispatches it, or has a voice that starts after the
\* resume: a trigger that was dispatched early through the lookahead and
\* whose voice the pause cancelled is not left flagged as fired.
C36_NoNoteLostByPause ==
    lastOp = "resume" /\ resumeBeat # <<>> =>
        \A i \in DOMAIN allNotes :
            allNotes[i].beatPosition >= resumeBeat[1] =>
                ~allNotes[i].triggered \/ VoiceToCome(allNotes[i], now)

\* the triggers whose absolute beat lies in [0, totalBeats)
InTab(i) == allNotes[i].beatPosition >= 0 /\ allNotes[i].beatPosition < TotalBeats

\* C37: in a non-looping session at constant tempo with on-time ticks that
\* nothing interrupts, no trigger in [0, totalBeats) is dispatched twice or
\* left behind unfired by the playhead, and when the transport completes
\* every one of them has been dispatched exactly once, by a tick before the
\* completing one.
C37_EveryTriggerOnce ==
    lastOp \in TickOps =>
        /\ \A i \in DOMAIN allNotes :
              InTab(i) => /\ passCount[i] <= 1
                          /\ i \notin missed
                          /\ lastOp = "tickComplete" => passCount[i] = 1
        /\ lastOp = "tickComplete" => pendingNotes = <<>>

\* C37 witness: a session at tempo 150 has completed with the trigger at
\* beat 0 and the trigger at beat 3.9833 dispatched
C37_Witness ==
    /\ lastOp = "tickComplete"
    /\ tempo = 150
    /\ \E i, j \in DOMAIN allNotes :
          /\ allNotes[i].beatPosition = 0
          /\ allNotes[j].beatPosition > TotalBeats - Lookahead
          /\ passCount[i] = 1 /\ passCount[j] = 1

\* 1 <= loopStartMeasure <= loopEndMeasure <= number of measures
ValidRange ==
    /\ tabData # <<>>
    /\ 1 <= loopStartMeasure
    /\ loopStartMeasure <= loopEndMeasure
    /\ loopEndMeasure <= Len(tabData[1].measures)
InLoop(b) == LoopStartBeat <= b /\ b < LoopEndBeat
\* a loop reset has closed a pass of this session (one that dispatched a
\* trigger)
AfterReset == \E i \in DOMAIN prevPassCount : prevPassCount[i] > 0

\* C38: while the transport is Playing with looping enabled and a valid
\* range, no step calls the completion observer, only pause() and stop()
\* leave Playing, and after a reset, with the playhead inside [loopStart,
\* loopEnd), every tick either leaves currentBeat inside that range or is
\* the next reset, which puts it at the loop-start beat.
C38_LoopNeverCompletes ==
    [][isPlaying /\ isLooping /\ ValidRange =>
         /\ Completions(observed') = 0
         /\ ~isPlaying' => lastOp' \in {"pause", "stop"}
         /\ (AfterReset /\ InLoop(currentBeat) /\ lastOp' \in TickOps) =>
               \/ lastOp' = "tickLoop" /\ currentBeat' = LoopStartBeat
               \/ lastOp' = "tick" /\ InLoop(currentBeat')]_vars

\* C39 as stated: the completing tick calls the progress observer with 1,
\* then with 0, then the completion observer, and from then until the next
\* play() no step calls an observer.
C39_CompletionCallbacks ==
    [][/\ lastOp' = "tickComplete" => observed' = <<One, Zero, OnComplete>>
       /\ completed => observed' = <<>>]_vars

\* C39: the completing tick calls the progress observer with 1, then with
\* 0, then the completion observer once, and from then until the next
\* play() the completion observer is not called and the progress observer
\* is called only by an explicit stop(), with 0.
C39_CompletionCallbacksButStop ==
    [][/\ lastOp' = "tickComplete" => observed' = <<One, Zero, OnComplete>>
       /\ completed =>
            observed' = IF lastOp' = "stop" THEN <<Zero>> ELSE <<>>]_vars

\* C39 witness: stop() has been called after a natural completion, before
\* the next play()
C39_Witness ==
    /\ completed
    /\ lastOp = "stop"
    /\ observed = <<Zero>>

\* C40: the range that updateLoopRange passes to the sequencer for a loaded
\* tab satisfies 1 <= loopStartMeasure <= loopEndMeasure <= number of
\* measures.
C40_RangeInsideTab ==
    lastOp = "setLoopRange" /\ tabData # <<>> => ValidRange
====
